---- MODULE Spec2Model ----
(***************************************************************************)
(* SDF Surfer: the frame loop of MyApp (src/src/main.rs) with its shader   *)
(* hot-reload, and the motion integrator PlayerMovement with its two input *)
(* devices (src/src/motion.rs).                                            *)
(*                                                                         *)
(* Numbers.  f32 values are modelled as exact integers in fixed units:     *)
(*   axis values        in units of 1/AxisScale                            *)
(*   yaw and speed      in units of 1/(100*AxisScale)                      *)
(*   time               in units of 1/100                                  *)
(* so that SENSITIVITY_X = 0.01 is 1, SENSITIVITY_Y = 0.02 is 2 and the    *)
(* time increment 0.01 is 1.  Rounding of f32 arithmetic is not modelled.  *)
(***************************************************************************)
EXTENDS Integers, Sequences, FiniteSets, TLC

VARIABLES
    app,            \* "init" | "running" | "failed" (Err returned) | "panicked"
    args,           \* Opt: [balance, shader_path]
    fullscreen,     \* MyApp.fullscreen: [mesh, material, transform]
    time,           \* MyApp.time
    movement,       \* MyApp.movement: [position, yaw, speed]
    queue,          \* the mpsc channel behind MyApp.file_watch_rx
    watcher,        \* TRUE while the watcher thread holds the sender
    pad,            \* gilrs: [events, x, y] pending events and cached axis data
    board,          \* WiiBoardRealtime: [status, sample]
    engine,         \* the Engine: [materials, next_material, removed, time_value, meshes]
    ticks,          \* number of next_frame calls made so far
    tick,           \* observation of the last next_frame call
    boot,           \* observation of MyApp::new
    sent,           \* number of events the watcher thread has sent
    sum             \* [x, y]: sums of the axis values polled so far

vars == <<app, args, fullscreen, time, movement, queue, watcher, pad, board,
          engine, ticks, tick, boot, sent, sum>>

-----------------------------------------------------------------------------
(* Bounds of the model *)

MaxTicks == 3
MaxEvents == 2
MaxPadEvents == 2

-----------------------------------------------------------------------------
(* Program constants *)

SENSITIVITY_X == 1
SENSITIVITY_Y == 2
TIME_STEP == 1
AxisScale == 2 * 2 * 3 * 5 * 7
FRAC_PI_2 == (157 * AxisScale)          \* 1.57 rad in yaw units

-----------------------------------------------------------------------------
(* Paths.  A path is the file name inside the watched directory, as the    *)
(* list of its pieces with "." as a piece of its own, plus whether the     *)
(* name is valid UTF-8.  The empty name is the empty path "".              *)

Path(name, utf8) == [name |-> name, utf8 |-> utf8]

ShaderFrag == Path(<<"shader", ".", "frag">>, TRUE)
SceneGlsl == Path(<<"scene", ".", "glsl">>, TRUE)
NotesTxt == Path(<<"notes", ".", "txt">>, TRUE)
BadNameFrag == Path(<<"caf?", ".", "frag">>, FALSE)
EmptyPath == Path(<<>>, TRUE)

Paths == {ShaderFrag, NotesTxt, BadNameFrag}
ShaderPaths == {ShaderFrag, SceneGlsl, EmptyPath}

None == [some |-> FALSE, v |-> <<>>]
Some(v) == [some |-> TRUE, v |-> v]

SetMax(S) == CHOOSE m \in S : \A k \in S : k <= m

\* std::path::Path::extension: the part of the file name after the last
\* ".", None when there is no "." or the name begins with its only ".".
Extension(p) ==
    LET dots == {i \in 1..Len(p.name) : p.name[i] = "."}
    IN  IF dots = {} \/ SetMax(dots) = 1
        THEN None
        ELSE Some(SubSeq(p.name, SetMax(dots) + 1, Len(p.name)))

\* std::path::Path::parent: None for the empty path.
HasParent(p) == p.name # <<>>

\* What the file system holds at a path when the frame loop looks at it.
\* "unreadable": a regular file whose read_to_string fails.
FsEntries == {"absent", "dir", "valid", "invalid", "unreadable"}
IsFile(entry) == entry \in {"valid", "invalid", "unreadable"}

-----------------------------------------------------------------------------
(* Watch events (notify::DebouncedEvent) *)

Event(kind, path) == [kind |-> kind, path |-> path]
Events ==
    {Event("Create", ShaderFrag), Event("Write", ShaderFrag), Event("Create", NotesTxt),
     Event("Write", BadNameFrag), Event("Remove", ShaderFrag), Event("Rescan", EmptyPath)}
\* The n-th message of the channel: an event and its place in the order of
\* sending (mpsc channels deliver in the order of the sends).
Sent(ev, n) == [kind |-> ev.kind, path |-> ev.path, seq |-> n]
Carries(m, ev) == m.kind = ev.kind /\ m.path = ev.path
NoEvent == Sent(Event("none", EmptyPath), 0)

Call(op, arg) == [op |-> op, arg |-> arg]
Pos(calls, op) == {i \in 1..Len(calls) : calls[i].op = op}

-----------------------------------------------------------------------------
(* The channel: Receiver::try_recv (main.rs:90) *)

\* A receive that waits for an event (Receiver::recv).
TryRecvWaits(q, alive) ==
    IF q # <<>>
    THEN [res |-> "ok", ev |-> Head(q), rest |-> Tail(q)]
    ELSE [res |-> IF alive THEN "blocked" ELSE "disconnected", ev |-> NoEvent, rest |-> q]

\* A receive that empties the queue and keeps the oldest event.
TryRecvDrains(q, alive) ==
    IF q # <<>>
    THEN [res |-> "ok", ev |-> Head(q), rest |-> <<>>]
    ELSE [res |-> IF alive THEN "empty" ELSE "disconnected", ev |-> NoEvent, rest |-> q]

\* A receive that takes the newest queued event.
TryRecvNewest(q, alive) ==
    IF q # <<>>
    THEN [res |-> "ok", ev |-> q[Len(q)], rest |-> SubSeq(q, 1, Len(q) - 1)]
    ELSE [res |-> IF alive THEN "empty" ELSE "disconnected", ev |-> NoEvent, rest |-> q]

\* Takes the oldest queued event, if any; never waits ("blocked" is the
\* outcome of a receive that would wait).  Queued events are still
\* delivered after the sender is gone.
TryRecv(q, alive) ==
    IF q # <<>>
    THEN [res |-> "ok", ev |-> Head(q), rest |-> Tail(q)]
    ELSE [res |-> IF alive THEN "empty" ELSE "disconnected", ev |-> NoEvent, rest |-> q]

\* A filter that forgets the extension.
QualifiesAnyExtension(ev, entry) ==
    /\ ev.kind \in {"Create", "Write"}
    /\ IsFile(entry)

\* main.rs:91-92: the match arm and the if inside it.
Qualifies(ev, entry) ==
    /\ ev.kind \in {"Create", "Write"}
    /\ IsFile(entry)
    /\ Extension(ev.path) = Some(<<"frag">>)

-----------------------------------------------------------------------------
(* load_shader (main.rs:121-135).  h is the handle the engine hands out    *)
(* if add_material succeeds.                                               *)

LoadShader(path, entry, addOk, h) ==
    IF entry # "valid" /\ entry # "invalid"
    THEN [res |-> "err", material |-> 0,
          calls |-> <<Call("read_to_string", 0)>>]
    ELSE IF ~path.utf8
    THEN [res |-> "panic", material |-> 0,
          calls |-> <<Call("read_to_string", 0), Call("to_str", 0)>>]
    ELSE IF entry = "invalid"
    THEN [res |-> "err", material |-> 0,
          calls |-> <<Call("read_to_string", 0), Call("to_str", 0),
                      Call("compile_into_spirv", 0)>>]
    ELSE IF ~addOk
    THEN [res |-> "err", material |-> 0,
          calls |-> <<Call("read_to_string", 0), Call("to_str", 0),
                      Call("compile_into_spirv", 0), Call("add_material", 0)>>]
    ELSE [res |-> "ok", material |-> h,
          calls |-> <<Call("read_to_string", 0), Call("to_str", 0),
                      Call("compile_into_spirv", 0), Call("add_material", h)>>]

\* A swap that releases the handle it has just stored.
ReplaceMaterialReleasesNew(material, new) == [material |-> new, old |-> new]

\* A swap that releases the old handle but keeps it as the active one.
ReplaceMaterialKeepsOld(material, new) == [material |-> material, old |-> material]

\* main.rs:95-96: mem::replace and the argument of remove_material.
ReplaceMaterial(material, new) == [material |-> new, old |-> material]

\* Arms that propagate a load error with ? instead of printing it.
OnLoadPropagates(ld, material, removeOk) ==
    IF ld.res = "ok"
    THEN LET sw == ReplaceMaterial(material, ld.material)
         IN  [material |-> sw.material,
              calls |-> <<Call("replace", sw.material), Call("remove_material", sw.old)>>
                        \o (IF removeOk THEN <<Call("println", 0)>> ELSE <<>>),
              stdout |-> IF removeOk THEN <<"Loaded">> ELSE <<>>,
              exit |-> IF removeOk THEN "go" ELSE "err"]
    ELSE IF ld.res = "err"
    THEN [material |-> material, calls |-> <<>>, stdout |-> <<>>, exit |-> "err"]
    ELSE [material |-> material, calls |-> <<>>, stdout |-> <<>>, exit |-> "panic"]

\* Arms that drop a load error silently.
OnLoadSilent(ld, material, removeOk) ==
    IF ld.res = "ok"
    THEN LET sw == ReplaceMaterial(material, ld.material)
         IN  [material |-> sw.material,
              calls |-> <<Call("replace", sw.material), Call("remove_material", sw.old)>>
                        \o (IF removeOk THEN <<Call("println", 0)>> ELSE <<>>),
              stdout |-> IF removeOk THEN <<"Loaded">> ELSE <<>>,
              exit |-> IF removeOk THEN "go" ELSE "err"]
    ELSE IF ld.res = "err"
    THEN [material |-> material, calls |-> <<>>, stdout |-> <<>>, exit |-> "go"]
    ELSE [material |-> material, calls |-> <<>>, stdout |-> <<>>, exit |-> "panic"]

\* Arms that ignore the result of remove_material.
OnLoadIgnoresRemove(ld, material, removeOk) ==
    IF ld.res = "ok"
    THEN LET sw == ReplaceMaterial(material, ld.material)
         IN  [material |-> sw.material,
              calls |-> <<Call("replace", sw.material), Call("remove_material", sw.old),
                          Call("println", 0)>>,
              stdout |-> <<"Loaded">>,
              exit |-> "go"]
    ELSE IF ld.res = "err"
    THEN [material |-> material, calls |-> <<Call("println", 0)>>,
          stdout |-> <<"ERROR">>, exit |-> "go"]
    ELSE [material |-> material, calls |-> <<>>, stdout |-> <<>>, exit |-> "panic"]

\* Arms that swap in the new material and never release the old one.
OnLoadLeaks(ld, material, removeOk) ==
    IF ld.res = "ok"
    THEN LET sw == ReplaceMaterial(material, ld.material)
         IN  [material |-> sw.material,
              calls |-> <<Call("replace", sw.material), Call("println", 0)>>,
              stdout |-> <<"Loaded">>,
              exit |-> "go"]
    ELSE IF ld.res = "err"
    THEN [material |-> material, calls |-> <<Call("println", 0)>>,
          stdout |-> <<"ERROR">>, exit |-> "go"]
    ELSE [material |-> material, calls |-> <<>>, stdout |-> <<>>, exit |-> "panic"]

\* main.rs:94-101: the two arms on the result of load_shader.
OnLoad(ld, material, removeOk) ==
    IF ld.res = "ok"
    THEN LET sw == ReplaceMaterial(material, ld.material)
         IN  [material |-> sw.material,
              calls |-> <<Call("replace", sw.material), Call("remove_material", sw.old)>>
                        \o (IF removeOk THEN <<Call("println", 0)>> ELSE <<>>),
              stdout |-> IF removeOk THEN <<"Loaded">> ELSE <<>>,
              exit |-> IF removeOk THEN "go" ELSE "err"]
    ELSE IF ld.res = "err"
    THEN [material |-> material, calls |-> <<Call("println", 0)>>,
          stdout |-> <<"ERROR">>, exit |-> "go"]
    ELSE [material |-> material, calls |-> <<>>, stdout |-> <<>>, exit |-> "panic"]

\* main.rs:90-106: the whole match on try_recv.
Reload(rx, entry, addOk, removeOk, material, h) ==
    IF rx.res = "ok" /\ Qualifies(rx.ev, entry)
    THEN LET ld == LoadShader(rx.ev.path, entry, addOk, h)
             ol == OnLoad(ld, material, removeOk)
         IN  [qualified |-> TRUE, load |-> ld.res, material |-> ol.material,
              calls |-> <<Call("try_recv", 0)>> \o ld.calls \o ol.calls,
              stdout |-> ol.stdout, exit |-> ol.exit]
    ELSE [qualified |-> FALSE, load |-> "none", material |-> material,
          calls |-> <<Call("try_recv", 0)>>, stdout |-> <<>>, exit |-> "go"]

-----------------------------------------------------------------------------
(* Input devices (motion.rs:44-93) *)

NoAxis == [some |-> FALSE, v |-> 0]
SomeAxis(v) == [some |-> TRUE, v |-> v]
PadValues == {-AxisScale, AxisScale \div 2}
PadEvents == [axis : {"LeftStickX", "LeftStickY"}, value : PadValues]

\* Sensor samples: unloaded, below zero, centred, right edge, top left
\* corner, off centre, and one sensor reading below zero under load.
Sample(tl, tr, bl, br) ==
    [top_left |-> tl, top_right |-> tr, bottom_left |-> bl, bottom_right |-> br]
BoardData ==
    {Sample(0, 0, 0, 0), Sample(-1, 0, 0, 0), Sample(1, 1, 1, 1), Sample(0, 1, 0, 1),
     Sample(1, 0, 0, 0), Sample(2, 1, 1, 0), Sample(-1, 2, 0, 0)}
NoSample == [some |-> FALSE, v |-> Sample(0, 0, 0, 0)]
SomeSample(d) == [some |-> TRUE, v |-> d]

\* Gilrs::next_event: takes one pending event and updates the cached state.
NextEvent(p) ==
    IF p.events = <<>>
    THEN p
    ELSE LET e == Head(p.events)
         IN  [events |-> Tail(p.events),
              x |-> IF e.axis = "LeftStickX" THEN SomeAxis(e.value) ELSE p.x,
              y |-> IF e.axis = "LeftStickY" THEN SomeAxis(e.value) ELSE p.y]

\* A poll that forgets to negate the horizontal axis.
GamepadGetAxesPlain(p) ==
    LET p1 == NextEvent(p)
        x == IF p1.x.some THEN p1.x.v ELSE 0
        y == IF p1.y.some THEN p1.y.v ELSE 0
    IN  [res |-> "ok", x |-> x, y |-> y, pad |-> p1]

\* motion.rs:76-93
GamepadGetAxes(p) ==
    LET p1 == NextEvent(p)
        x == IF p1.x.some THEN p1.x.v ELSE 0
        y == IF p1.y.some THEN p1.y.v ELSE 0
    IN  [res |-> "ok", x |-> -x, y |-> y, pad |-> p1]

\* A poll that only treats a zero pressure sum as unloaded.
BoardGetAxesNonZero(b) ==
    IF b.status = "broken"
    THEN [res |-> "err", x |-> 0, y |-> 0, board |-> b]
    ELSE LET data == b.sample.v
             total == data.top_left + data.top_right + data.bottom_left + data.bottom_right
             b1 == [b EXCEPT !.sample = NoSample]
         IN  IF b.sample.some /\ total # 0
             THEN [res |-> "ok",
                   x |-> ((data.top_right + data.bottom_right) * 2 * AxisScale) \div total - AxisScale,
                   y |-> ((data.top_left + data.top_right) * 2 * AxisScale) \div total - AxisScale,
                   board |-> b1]
             ELSE [res |-> "ok", x |-> 0, y |-> 0, board |-> b1]

\* A poll that turns a read error into the neutral signal.
BoardGetAxesAbsorbs(b) ==
    LET data == b.sample.v
        total == data.top_left + data.top_right + data.bottom_left + data.bottom_right
        b1 == [b EXCEPT !.sample = NoSample]
    IN  IF b.status = "ok" /\ b.sample.some /\ total > 0
        THEN [res |-> "ok",
              x |-> ((data.top_right + data.bottom_right) * 2 * AxisScale) \div total - AxisScale,
              y |-> ((data.top_left + data.top_right) * 2 * AxisScale) \div total - AxisScale,
              board |-> b1]
        ELSE [res |-> "ok", x |-> 0, y |-> 0, board |-> b1]

\* motion.rs:48-61.  poll() fails on a broken connection, else hands out
\* the fresh sample once.
BoardGetAxes(b) ==
    IF b.status = "broken"
    THEN [res |-> "err", x |-> 0, y |-> 0, board |-> b]
    ELSE LET data == b.sample.v
             total == data.top_left + data.top_right + data.bottom_left + data.bottom_right
             b1 == [b EXCEPT !.sample = NoSample]
         IN  IF b.sample.some /\ total > 0
             THEN [res |-> "ok",
                   x |-> ((data.top_right + data.bottom_right) * 2 * AxisScale) \div total - AxisScale,
                   y |-> ((data.top_left + data.top_right) * 2 * AxisScale) \div total - AxisScale,
                   board |-> b1]
             ELSE [res |-> "ok", x |-> 0, y |-> 0, board |-> b1]

\* Box<dyn TwoAxis>::get_axes
GetAxes(balance, p, b) ==
    IF balance
    THEN LET r == BoardGetAxes(b) IN [res |-> r.res, x |-> r.x, y |-> r.y, pad |-> p, board |-> r.board]
    ELSE LET r == GamepadGetAxes(p) IN [res |-> r.res, x |-> r.x, y |-> r.y, pad |-> r.pad, board |-> b]

\* An integrator that moves the player forward by the accumulated speed.
PlayerTransformMoves(m, x, y) ==
    LET m1 == [m EXCEPT !.yaw = @ + x * SENSITIVITY_X, !.speed = @ + y * SENSITIVITY_Y,
                        !.position = <<@[1], @[2], @[3] + (m.speed + y * SENSITIVITY_Y)>>]
    IN  [movement |-> m1, transform |-> [translation |-> m1.position, yaw |-> m1.yaw]]

\* A mistaken integrator: both axes scaled by SENSITIVITY_X.
PlayerTransformOneGain(m, x, y) ==
    LET m1 == [m EXCEPT !.yaw = @ + x * SENSITIVITY_X, !.speed = @ + y * SENSITIVITY_X]
    IN  [movement |-> m1, transform |-> [translation |-> m1.position, yaw |-> m1.yaw]]

\* PlayerMovement::player_transform after a successful poll (motion.rs:37-40):
\* the new state, and translation by position times rotation by yaw.
PlayerTransform(m, x, y) ==
    LET m1 == [m EXCEPT !.yaw = @ + x * SENSITIVITY_X, !.speed = @ + y * SENSITIVITY_Y]
    IN  [movement |-> m1, transform |-> [translation |-> m1.position, yaw |-> m1.yaw]]

\* A constructor that does not look for a gamepad.
GamepadAxesNewUnchecked(gilrsOk, connected) ==
    IF ~gilrsOk THEN "gilrs failed to init" ELSE "ok"

\* GamepadAxes::new (motion.rs:68-74)
GamepadAxesNew(gilrsOk, connected) ==
    IF ~gilrsOk THEN "gilrs failed to init"
    ELSE IF ~connected THEN "No gamepads found"
    ELSE "ok"

\* PlayerMovement::new (motion.rs:19-33); WiiBoardRealtime::new cannot fail.
PlayerMovementNew(balance, gilrsOk, connected) ==
    LET dev == IF balance THEN "ok" ELSE GamepadAxesNew(gilrsOk, connected)
    IN  [res |-> dev,
         movement |-> [position |-> <<0, 0, 0>>, yaw |-> FRAC_PI_2, speed |-> 0]]

-----------------------------------------------------------------------------
(* State *)

\* A frame that puts the object into the packet twice.
FramePacketTwice(object, base) ==
    [objects |-> <<object, object>>, mesh |-> object.mesh, material |-> object.material,
     transform |-> base]

\* main.rs:111-114: the FramePacket, objects: vec![self.fullscreen] and
\* base_transform; mesh and material are those of the object it carries.
FramePacket(object, base) ==
    [objects |-> <<object>>, mesh |-> object.mesh, material |-> object.material,
     transform |-> base]

NoFrame == [objects |-> <<>>, mesh |-> 0, material |-> 0,
            transform |-> [translation |-> <<0, 0, 0>>, yaw |-> 0]]
NoTick == [rx |-> "none", ev |-> NoEvent, entry |-> "unseen", qualified |-> FALSE,
           load |-> "none", prev |-> 0, calls |-> <<>>, stdout |-> <<>>,
           left |-> 0, fault |-> "none", axes |-> [res |-> "none", x |-> 0, y |-> 0],
           result |-> "none", frame |-> NoFrame]
NoBoot == [done |-> FALSE, stage |-> "none", connected |-> FALSE]

Init ==
    /\ app = "init"
    /\ args \in [balance : BOOLEAN, shader_path : ShaderPaths]
    /\ fullscreen = [mesh |-> 0, material |-> 0, transform |-> "identity"]
    /\ time = 0
    /\ movement = [position |-> <<0, 0, 0>>, yaw |-> 0, speed |-> 0]
    /\ queue = <<>>
    /\ watcher = FALSE
    /\ pad = [events |-> <<>>, x |-> NoAxis, y |-> NoAxis]
    /\ board = [status |-> "ok", sample |-> NoSample]
    /\ engine = [materials |-> {}, next_material |-> 1, removed |-> <<>>,
                 time_value |-> 0, meshes |-> 0]
    /\ ticks = 0
    /\ tick = NoTick
    /\ boot = NoBoot
    /\ sent = 0
    /\ sum = [x |-> 0, y |-> 0]

\* MyApp::new (main.rs:53-86).  The inputs are the outcomes of the calls it
\* makes on its collaborators; the first failure in source order ends it.
\* boardUp: whether the board's connection is usable after construction
\* (always so when a board is connected).
New ==
    /\ app = "init"
    /\ \E watcherOk \in BOOLEAN, watchOk \in BOOLEAN, meshOk \in BOOLEAN,
          compilerOk \in BOOLEAN, addOk \in BOOLEAN, gilrsOk \in BOOLEAN,
          connected \in BOOLEAN, boardUp \in BOOLEAN, entry \in FsEntries :
        LET ld == LoadShader(args.shader_path, entry, addOk, engine.next_material)
            pm == PlayerMovementNew(args.balance, gilrsOk, connected)
            stage == IF ~watcherOk THEN "watcher"
                     ELSE IF ~HasParent(args.shader_path) THEN "parent"
                     ELSE IF ~watchOk THEN "watch"
                     ELSE IF ~meshOk THEN "mesh"
                     ELSE IF ~compilerOk THEN "compiler"
                     ELSE IF ld.res = "err" THEN "load"
                     ELSE IF ld.res = "panic" THEN "panic"
                     ELSE IF pm.res # "ok" THEN "input"
                     ELSE "ok"
            meshed == stage \in {"compiler", "load", "panic", "input", "ok"}
            loaded == stage \in {"input", "ok"}
        IN  /\ connected => boardUp
            /\ (args.balance => gilrsOk) /\ (~args.balance => boardUp)
            /\ app' = IF stage = "ok" THEN "running"
                      ELSE IF stage = "panic" THEN "panicked" ELSE "failed"
            /\ engine' = [engine EXCEPT
                             !.meshes = IF meshed THEN 1 ELSE @,
                             !.materials = IF loaded THEN @ \cup {ld.material} ELSE @,
                             !.next_material = IF loaded THEN @ + 1 ELSE @]
            /\ fullscreen' = IF stage = "ok"
                             THEN [mesh |-> 1, material |-> ld.material,
                                   transform |-> "identity"]
                             ELSE fullscreen
            /\ movement' = IF stage = "ok" THEN pm.movement ELSE movement
            /\ board' = IF stage = "ok" /\ args.balance /\ ~boardUp
                        THEN [board EXCEPT !.status = "broken"] ELSE board
            /\ watcher' = (stage = "ok")
            /\ boot' = [done |-> TRUE, stage |-> stage, connected |-> connected]
    /\ UNCHANGED <<args, time, queue, pad, ticks, tick, sent, sum>>

\* The watcher thread sends one debounced event (notify, main.rs:55-61).
WatcherSend ==
    /\ app = "running"
    /\ watcher
    /\ sent < MaxEvents
    /\ \E ev \in Events : queue' = Append(queue, Sent(ev, sent + 1))
    /\ sent' = sent + 1
    /\ UNCHANGED <<app, args, fullscreen, time, movement, watcher, pad, board,
                   engine, ticks, tick, boot, sum>>

\* The watcher thread ends and drops its sender.
WatcherStop ==
    /\ app = "running"
    /\ watcher
    /\ watcher' = FALSE
    /\ UNCHANGED <<app, args, fullscreen, time, movement, queue, pad, board,
                   engine, ticks, tick, boot, sent, sum>>

\* The gamepad reports an axis change; gilrs queues it.
GamepadEvent ==
    /\ app = "running"
    /\ ~args.balance
    /\ Len(pad.events) < MaxPadEvents
    /\ \E e \in PadEvents : pad' = [pad EXCEPT !.events = Append(@, e)]
    /\ UNCHANGED <<app, args, fullscreen, time, movement, queue, watcher, board,
                   engine, ticks, tick, boot, sent, sum>>

\* The balance board delivers a fresh sample.
BoardSample ==
    /\ app = "running"
    /\ args.balance
    /\ board.status = "ok"
    /\ \E d \in BoardData : board' = [board EXCEPT !.sample = SomeSample(d)]
    /\ UNCHANGED <<app, args, fullscreen, time, movement, queue, watcher, pad,
                   engine, ticks, tick, boot, sent, sum>>

\* The connection to the balance board breaks.
BoardBreak ==
    /\ app = "running"
    /\ args.balance
    /\ board.status = "ok"
    /\ board' = [status |-> "broken", sample |-> NoSample]
    /\ UNCHANGED <<app, args, fullscreen, time, movement, queue, watcher, pad,
                   engine, ticks, tick, boot, sent, sum>>

\* A time step that advances the time before forwarding it.
UpdateTimeAdvancesFirst(t, timeOk) ==
    [forwarded |-> t + TIME_STEP,
     time |-> t + TIME_STEP,
     calls |-> <<Call("advance_time", t + TIME_STEP), Call("update_time_value", t + TIME_STEP)>>]

\* main.rs:108-109: forward the time to the engine, then advance it if the
\* engine accepted it.
UpdateTime(t, timeOk) ==
    [forwarded |-> t,
     time |-> IF timeOk THEN t + TIME_STEP ELSE t,
     calls |-> <<Call("update_time_value", t)>>
               \o (IF timeOk THEN <<Call("advance_time", t + TIME_STEP)>> ELSE <<>>)]

\* MyApp::next_frame (main.rs:88-115), one whole call.  The inputs are what
\* the file system holds at the event's path and whether the engine's calls
\* succeed.  A returned Err or a panic ends the program.
NextFrame ==
    /\ app = "running"
    /\ ticks < MaxTicks
    /\ \E rx \in {TryRecv(queue, watcher)}, ax \in {GetAxes(args.balance, pad, board)} :
       \E entry \in FsEntries, addOk \in BOOLEAN, removeOk \in BOOLEAN, timeOk \in BOOLEAN :
        /\ rx.res # "blocked"
        /\ rx.ev.kind \in {"Create", "Write"} \/ entry = "absent"
        /\ (rx.ev.kind \in {"Create", "Write"} /\ entry = "valid") \/ addOk
        /\ \E rl \in {Reload(rx, entry, addOk, removeOk, fullscreen.material,
                             engine.next_material)} :
            LET created == IF rl.load = "ok" THEN {engine.next_material} ELSE {}
                removeArgs == {rl.calls[i].arg : i \in Pos(rl.calls, "remove_material")}
                timed == rl.exit = "go"
                advanced == timed /\ timeOk
                framed == advanced /\ ax.res = "ok"
                pt == PlayerTransform(movement, ax.x, ax.y)
                result == IF rl.exit # "go" THEN rl.exit
                          ELSE IF ~timeOk THEN "err"
                          ELSE IF ax.res # "ok" THEN "panic"
                          ELSE "frame"
                ut == UpdateTime(time, timeOk)
                calls == rl.calls
                         \o (IF timed THEN ut.calls ELSE <<>>)
                         \o (IF advanced THEN <<Call("get_axes", 0)>> ELSE <<>>)
                         \o (IF framed THEN <<Call("return_frame", rl.material)>> ELSE <<>>)
            IN  /\ rl.load = "ok" \/ removeOk
                /\ timed \/ timeOk
                /\ app' = IF result = "frame" THEN "running"
                          ELSE IF result = "panic" THEN "panicked" ELSE "failed"
                /\ queue' = rx.rest
                /\ fullscreen' = [fullscreen EXCEPT !.material = rl.material]
                /\ engine' = [engine EXCEPT
                                 !.materials = (@ \cup created)
                                               \ (IF removeOk THEN removeArgs ELSE {}),
                                 !.next_material = @ + Cardinality(created),
                                 !.removed = @ \o [i \in 1..Cardinality(removeArgs) |->
                                                      CHOOSE a \in removeArgs : TRUE],
                                 !.time_value = IF advanced THEN ut.forwarded ELSE @]
                /\ time' = IF timed THEN ut.time ELSE time
                /\ pad' = IF advanced THEN ax.pad ELSE pad
                /\ board' = IF advanced THEN ax.board ELSE board
                /\ movement' = IF framed THEN pt.movement ELSE movement
                /\ sum' = IF framed THEN [x |-> sum.x + ax.x, y |-> sum.y + ax.y] ELSE sum
                /\ tick' = [rx |-> rx.res, ev |-> rx.ev,
                            entry |-> IF rx.ev.kind \in {"Create", "Write"}
                                      THEN entry ELSE "unseen",
                            qualified |-> rl.qualified, load |-> rl.load,
                            prev |-> fullscreen.material, calls |-> calls,
                            stdout |-> rl.stdout, left |-> Len(rx.rest),
                            fault |-> IF rl.load = "ok" /\ ~removeOk THEN "remove_material"
                                      ELSE IF timed /\ ~timeOk THEN "update_time_value"
                                      ELSE IF advanced /\ ax.res = "err" THEN "get_axes"
                                      ELSE "none",
                            axes |-> IF advanced THEN [res |-> ax.res, x |-> ax.x, y |-> ax.y]
                                     ELSE [res |-> "none", x |-> 0, y |-> 0],
                            result |-> result,
                            frame |-> IF framed
                                      THEN FramePacket([fullscreen EXCEPT
                                                           !.material = rl.material],
                                                       pt.transform)
                                      ELSE NoFrame]
    /\ ticks' = ticks + 1
    /\ UNCHANGED <<args, watcher, boot, sent>>

\* The frame loop with the file watcher; the input devices stay silent.
Next ==
    \/ New
    \/ WatcherSend
    \/ WatcherStop
    \/ BoardBreak
    \/ NextFrame

Spec == Init /\ [][Next]_vars

\* The frame loop with the input devices; no file changes.
NextMotion ==
    \/ New
    \/ GamepadEvent
    \/ BoardSample
    \/ BoardBreak
    \/ NextFrame

SpecMotion == Init /\ [][NextMotion]_vars

\* The frame loop with the file watcher alone.
NextWatch ==
    \/ New
    \/ WatcherSend
    \/ WatcherStop
    \/ NextFrame

\* The engine's main loop (launch, main.rs:36) calls next_frame again and
\* again: while the application runs, the tick counter advances.  NextFrame
\* is the only action that advances ticks, and it can run whenever
\* app = "running" /\ ticks < MaxTicks.
FrameLoop == app = "running" /\ ticks < MaxTicks /\ ticks' = ticks + 1

FairSpec == Init /\ [][NextWatch]_vars /\ WF_ticks(FrameLoop)

-----------------------------------------------------------------------------
(* Properties *)

Range(f) == {f[i] : i \in 1..Len(f)}
Called(op) == Pos(tick.calls, op) # {}
IsTick == ticks' = ticks + 1
BoardTotal(d) == d.top_left + d.top_right + d.bottom_left + d.bottom_right

\* C1: the material of every emitted frame is a handle that add_material
\* has returned and that has never been passed to remove_material; within
\* a tick the active reference is replaced only after the read, the compile
\* and add_material have completed, by the handle add_material returned,
\* and remove_material is called only after the replacement.
C1_FrameMaterialLive ==
    /\ tick.result = "frame" =>
        /\ tick.frame.material \in 1..(engine.next_material - 1)
        /\ tick.frame.material \in engine.materials
        /\ tick.frame.material \notin Range(engine.removed)
        /\ tick.frame.material = fullscreen.material
    /\ \A i \in Pos(tick.calls, "replace") :
        /\ \E j \in Pos(tick.calls, "add_material") :
              j < i /\ tick.calls[j].arg = tick.calls[i].arg /\ tick.calls[j].arg # 0
        /\ \E j \in Pos(tick.calls, "compile_into_spirv") : j < i
    /\ \A i \in Pos(tick.calls, "remove_material") :
          \E j \in Pos(tick.calls, "replace") : j < i

C1_Witness ==
    /\ tick.result = "frame"
    /\ tick.load = "ok"
    /\ Len(engine.removed) = 2

C3_InvalidSourceKeepsMaterial ==
    (tick.load = "err" /\ tick.entry = "invalid") =>
        /\ Called("compile_into_spirv")
        /\ fullscreen.material = tick.prev
        /\ ~Called("remove_material")
        /\ ~Called("add_material")
        /\ tick.stdout = <<"ERROR">>

C3_Witness ==
    /\ tick.load = "err"
    /\ tick.entry = "invalid"
    /\ Carries(tick.ev, Event("Write", ShaderFrag))

\* C4: when the dequeued event is not a Create or Write, or its path is not
\* a regular file, or its extension is not the shader extension, nothing is
\* read or compiled, add_material and remove_material are not called and
\* the active material is unchanged.
C4_OtherEventsIgnored ==
    (/\ tick.rx = "ok"
     /\ \/ tick.ev.kind \notin {"Create", "Write"}
        \/ ~IsFile(tick.entry)
        \/ Extension(tick.ev.path) # Some(<<"frag">>))
    =>
        /\ ~Called("read_to_string")
        /\ ~Called("compile_into_spirv")
        /\ ~Called("add_material")
        /\ ~Called("remove_material")
        /\ fullscreen.material = tick.prev
        /\ tick.stdout = <<>>

C4_Witness ==
    /\ Carries(tick.ev, Event("Create", NotesTxt))
    /\ tick.entry = "valid"
    /\ tick.result = "frame"

C7_OneEventPerTick ==
    [][IsTick =>
          /\ queue' = IF queue = <<>> THEN <<>> ELSE Tail(queue)
          /\ Len(queue) - Len(queue') = IF queue = <<>> THEN 0 ELSE 1
          /\ tick'.left = Len(queue')
          /\ queue # <<>> => tick'.ev = Head(queue)
      ]_vars

C7_Witness ==
    /\ tick.rx = "ok"
    /\ tick.left >= 1
    /\ queue # <<>>

\* C8: the frame loop never waits on the watcher: whenever the loop is
\* running a call of next_frame can complete, whatever the queue holds and
\* whether or not the watcher is alive, and a call that finds the queue
\* empty or the sender gone goes straight on to update_time_value.
C8_NeverWaits ==
    /\ (app = "running" /\ ticks < MaxTicks) => ENABLED NextFrame
    /\ tick.rx \in {"empty", "disconnected"} =>
          /\ Len(tick.calls) >= 2
          /\ tick.calls[1].op = "try_recv"
          /\ tick.calls[2].op = "update_time_value"

C8_Witness ==
    /\ tick.rx = "empty"
    /\ tick.result = "frame"
    /\ watcher
    /\ sent = 0
    /\ ticks = 2

\* C9 as stated: with no device connected, for either variant, once the
\* start-up gets to PlayerMovement::new it fails there and no frame is
\* produced.
C9_NoDeviceFailsStartup ==
    (boot.done /\ ~boot.connected /\ boot.stage \in {"input", "ok"}) =>
        (boot.stage = "input" /\ app = "failed" /\ ticks = 0)

\* C9, amended: with no gamepad connected and balance false,
\* PlayerMovement::new returns an error, MyApp::new fails and no frame is
\* ever produced; with balance true PlayerMovement::new cannot fail, so
\* with no balance board connected MyApp::new still succeeds.
C9_NoGamepadFailsStartup ==
    (boot.done /\ ~boot.connected /\ boot.stage \in {"input", "ok"}) =>
        IF args.balance
        THEN boot.stage = "ok"
        ELSE /\ boot.stage = "input"
             /\ app = "failed"
             /\ ticks = 0
             /\ tick = NoTick
             /\ ~ENABLED NextFrame

C9_Witness ==
    /\ boot.done
    /\ ~boot.connected
    /\ ~args.balance
    /\ boot.stage = "input"
    /\ app = "failed"

\* C10: a call of player_transform that polls (x, y) adds x*SENSITIVITY_X
\* to yaw and y*SENSITIVITY_Y to speed; so yaw and speed are always their
\* initial values plus the scaled sums of the polled values, and a neutral
\* poll leaves both unchanged.
C10_Accumulation ==
    /\ [](app # "init" /\ boot.stage = "ok" =>
            /\ movement.yaw = FRAC_PI_2 + sum.x * SENSITIVITY_X
            /\ movement.speed = 0 + sum.y * SENSITIVITY_Y)
    /\ [][(IsTick /\ tick'.result = "frame") =>
            /\ movement'.yaw = movement.yaw + tick'.axes.x * SENSITIVITY_X
            /\ movement'.speed = movement.speed + tick'.axes.y * SENSITIVITY_Y
            /\ tick'.frame.transform.yaw = movement'.yaw
            /\ (tick'.axes.x = 0 /\ tick'.axes.y = 0) =>
                  (movement'.yaw = movement.yaw /\ movement'.speed = movement.speed)
         ]_vars

C10_Witness ==
    /\ ticks = 3
    /\ tick.result = "frame"
    /\ sum.x # 0
    /\ sum.y # 0
    /\ movement.speed # 0
    /\ movement.yaw # FRAC_PI_2

\* C11: position never changes: after any sequence of ticks position is
\* still the zero vector it was constructed with, whatever speed has
\* accumulated, and every emitted transform translates by that zero vector.
C11_PositionFixed ==
    boot.stage = "ok" =>
        /\ movement.position = <<0, 0, 0>>
        /\ tick.result = "frame" => tick.frame.transform.translation = <<0, 0, 0>>

C11_Witness ==
    /\ ticks = 3
    /\ tick.result = "frame"
    /\ movement.speed >= 2 * SENSITIVITY_Y * AxisScale
    /\ movement.position = <<0, 0, 0>>

\* What C12 says of a successful balance-board poll, given the sample d
\* that was pending (fresh) before it: neutral without a fresh sample or
\* with a pressure sum <= 0, else x = 2*(right side)/total - 1 and
\* y = 2*(top side)/total - 1.
BoardLaw(fresh, d, ax) ==
    IF ~fresh \/ BoardTotal(d) <= 0
    THEN ax.x = 0 /\ ax.y = 0
    ELSE /\ (ax.x + AxisScale) * BoardTotal(d) = 2 * (d.top_right + d.bottom_right) * AxisScale
         /\ (ax.y + AxisScale) * BoardTotal(d) = 2 * (d.top_left + d.top_right) * AxisScale

InUnitRange(ax) ==
    /\ -AxisScale <= ax.x /\ ax.x <= AxisScale
    /\ -AxisScale <= ax.y /\ ax.y <= AxisScale

NonNegative(d) ==
    d.top_left >= 0 /\ d.top_right >= 0 /\ d.bottom_left >= 0 /\ d.bottom_right >= 0

\* C12 as stated: a balance-board poll is neutral without a sample or with
\* a pressure sum <= 0, follows the two fraction formulas otherwise, and
\* always returns values in [-1,1].
C12_BoardAxesInRange ==
    [][(IsTick /\ args.balance /\ tick'.axes.res = "ok") =>
          /\ BoardLaw(board.sample.some, board.sample.v, tick'.axes)
          /\ InUnitRange(tick'.axes)
      ]_vars

\* C12, amended: a balance-board poll is neutral without a sample or with
\* a pressure sum <= 0 and follows the two fraction formulas otherwise; the
\* returned values lie in [-1,1] when no sensor of the sample reads below
\* zero (a sensor below zero under a positive sum can put them outside).
C12_BoardAxes ==
    [][(IsTick /\ args.balance /\ tick'.axes.res = "ok") =>
          /\ BoardLaw(board.sample.some, board.sample.v, tick'.axes)
          /\ NonNegative(board.sample.v) => InUnitRange(tick'.axes)
      ]_vars

C12_Witness ==
    /\ args.balance
    /\ tick.result = "frame"
    /\ tick.axes.x = -(AxisScale \div 2)
    /\ tick.axes.y = AxisScale \div 2

\* C13: a gamepad poll returns (-X, Y), X and Y being the left stick's
\* horizontal and vertical axis values gilrs holds when they are read; an
\* axis without data counts as 0.
C13_GamepadAxes ==
    [][(IsTick /\ ~args.balance /\ tick'.axes.res # "none") =>
          /\ tick'.axes.res = "ok"
          /\ tick'.axes.x = IF pad'.x.some THEN 0 - pad'.x.v ELSE 0
          /\ tick'.axes.y = IF pad'.y.some THEN pad'.y.v ELSE 0
      ]_vars

C13_Witness ==
    /\ ~args.balance
    /\ tick.result = "frame"
    /\ pad.x = SomeAxis(-AxisScale)
    /\ tick.axes.x = AxisScale
    /\ pad.y = SomeAxis(AxisScale \div 2)
    /\ tick.axes.y = AxisScale \div 2

\* C14: a gamepad poll drains every event pending at the time of the poll:
\* after get_axes returns none of them is still queued.
C14_PollDrainsEvents ==
    [][(IsTick /\ ~args.balance /\ tick'.axes.res = "ok") => pad'.events = <<>>]_vars

\* C15: a Create or Write event for an existing regular file triggers a
\* recompilation if and only if the file's extension equals the extension
\* of the configured shader path.
C15_ConfiguredExtension ==
    (tick.rx = "ok" /\ tick.ev.kind \in {"Create", "Write"} /\ IsFile(tick.entry)) =>
        (Called("read_to_string") <=> Extension(tick.ev.path) = Extension(args.shader_path))

At(op) == SetMax(Pos(tick.calls, op))

\* C16 as stated: a tick that returns a frame has processed the pending
\* event first, then advanced the time, then forwarded the advanced value
\* to the engine, then polled the input, then emitted the frame.
C16_AdvanceThenForward ==
    tick.result = "frame" =>
        /\ tick.calls[1].op = "try_recv"
        /\ At("advance_time") < At("update_time_value")
        /\ At("update_time_value") < At("get_axes")
        /\ At("get_axes") < At("return_frame")
        /\ engine.time_value = time

\* C16, amended: a tick that returns a frame has processed the pending
\* event first, then forwarded the time to the engine and only then
\* advanced it by the fixed increment (the engine receives the value
\* without this tick's increment, 0 in the first tick), then polled the
\* input, then emitted the frame.
C16_ForwardThenAdvance ==
    tick.result = "frame" =>
        /\ tick.calls[1].op = "try_recv"
        /\ \A i \in Pos(tick.calls, "try_recv") \cup Pos(tick.calls, "add_material")
                    \cup Pos(tick.calls, "remove_material") \cup Pos(tick.calls, "println") :
              i < At("update_time_value")
        /\ At("update_time_value") < At("advance_time")
        /\ At("advance_time") < At("get_axes")
        /\ At("get_axes") < At("return_frame")
        /\ At("return_frame") = Len(tick.calls)
        /\ tick.calls[At("update_time_value")].arg = time - TIME_STEP
        /\ tick.calls[At("advance_time")].arg = time
        /\ engine.time_value = time - TIME_STEP
        /\ time = ticks * TIME_STEP

C16_Witness ==
    /\ tick.result = "frame"
    /\ tick.load = "ok"
    /\ ticks = 2
    /\ time = 2 * TIME_STEP
    /\ engine.time_value = TIME_STEP

\* C17: when remove_material fails after a successful swap, next_frame
\* returns the error: no frame is emitted, the time is neither forwarded
\* nor advanced, the input is not polled, and the active material is the
\* new handle (the swap is not rolled back).
C17_RemoveFailurePropagates ==
    tick.fault = "remove_material" =>
        /\ tick.result = "err"
        /\ app = "failed"
        /\ tick.frame = NoFrame
        /\ ~Called("update_time_value")
        /\ ~Called("advance_time")
        /\ ~Called("get_axes")
        /\ ~Called("return_frame")
        /\ tick.axes.res = "none"
        /\ time = (ticks - 1) * TIME_STEP
        /\ fullscreen.material # tick.prev
        /\ \E i \in Pos(tick.calls, "add_material") : tick.calls[i].arg = fullscreen.material
        /\ tick.calls[Len(tick.calls)] = Call("remove_material", tick.prev)

C17_Witness ==
    /\ tick.fault = "remove_material"
    /\ ticks = 2
    /\ tick.prev = 1
    /\ fullscreen.material = 2

\* C18: every frame returned by next_frame contains exactly one object,
\* whose mesh is the one handle add_mesh returned at start-up; across
\* reloads only the material field of the object changes.
C18_OneObjectFixedMesh ==
    /\ [](tick.result = "frame" =>
            /\ Len(tick.frame.objects) = 1
            /\ tick.frame.objects[1] = fullscreen
            /\ tick.frame.objects[1].mesh = 1
            /\ engine.meshes = 1)
    /\ [][app = "running" =>
            /\ fullscreen'.mesh = fullscreen.mesh
            /\ fullscreen'.transform = fullscreen.transform
            /\ engine'.meshes = engine.meshes]_vars

C18_Witness ==
    /\ tick.result = "frame"
    /\ tick.load = "ok"
    /\ ticks = 3
    /\ Len(tick.frame.objects) = 1
    /\ tick.frame.objects[1].material = 3

\* C19: no material leak: once start-up has succeeded, and at the end of
\* every tick that returns a frame, the materials created in the engine and
\* not released are exactly one handle, the one in fullscreen.material.
C19_NoMaterialLeak ==
    (app = "running" \/ tick.result = "frame") =>
        /\ engine.materials = {fullscreen.material}
        /\ Cardinality(engine.materials) = 1
        /\ Len(engine.removed) = engine.next_material - 2
        /\ \A h \in 1..(engine.next_material - 1) :
              h # fullscreen.material => h \in Range(engine.removed)

C19_Witness ==
    /\ ticks = 3
    /\ tick.result = "frame"
    /\ tick.load = "err"
    /\ engine.materials = {2}
    /\ engine.removed = <<1>>

\* C20: every event the watcher sends is dequeued by exactly one tick, in
\* the order of sending: the queue holds the messages not yet received in
\* sending order, a tick that finds the queue non-empty receives the next
\* message in that order, and nothing else receives.  While ticks keep
\* completing every message sent is eventually received, each tick
\* shortening a backlog by one.  After each completed tick, so also once the
\* backlog is consumed, the active material is the one made by the last
\* reload that succeeded (the startup material if none did).
Received == sent - Len(queue)

C20_InOrder ==
    /\ \A i \in 1..Len(queue) : queue[i].seq = Received + i
    /\ Received <= ticks
    /\ app = "running" => fullscreen.material = engine.next_material - 1

C20_OncePerTick ==
    /\ IsTick /\ queue # <<>> =>
          /\ tick'.ev.seq = Received + 1
          /\ Received' = Received + 1
          /\ Len(queue') = Len(queue) - 1
    /\ ~(IsTick /\ queue # <<>>) => Received' = Received
    /\ IsTick /\ tick'.result = "frame" =>
          fullscreen'.material = IF tick'.load = "ok" THEN engine.next_material
                                 ELSE fullscreen.material
    /\ ~IsTick /\ app = "running" => fullscreen'.material = fullscreen.material

C20_QueueConsumed ==
    /\ []C20_InOrder
    /\ [][C20_OncePerTick]_vars
    /\ \A n \in 1..MaxEvents :
          (sent >= n) ~> (Received >= n \/ app # "running" \/ ticks = MaxTicks)

C20_Witness ==
    /\ app = "running" /\ ticks = 3
    /\ sent = 2 /\ queue = <<>> /\ ~watcher
    /\ tick.rx = "disconnected"
    /\ engine.removed = <<1>> /\ fullscreen.material = 2

====
